---- MODULE Spec2Model ----
(***************************************************************************)
(* CoyaleRash: the simulation and combat loop of the Game class            *)
(* (src/js/entities/Unit.js), its units, towers and projectiles, the       *)
(* elixir and placement controller and the opponent timer.                 *)
(*                                                                         *)
(* Numbers.  Times are whole milliseconds (deltaTime, a float of seconds   *)
(* in the code, is carried as milliseconds); positions are whole pixels.   *)
(* Every comparison of a distance with a range or a radius is made on the  *)
(* squared distance and is exact.  The only rounding is in a displacement: *)
(* direction * speed * deltaTime is rounded to the nearest pixel.          *)
(* Rendering state (velocity, facing, animationTime, emoji, size) is not   *)
(* read by the simulation and is left out.                                 *)
(***************************************************************************)
EXTENDS Integers, Sequences, FiniteSets, TLC

VARIABLES
    canvas,          \* [width, height] of the canvas after setupCanvas
    playerZone,      \* rectangle computed in the constructor
    enemyZone,       \* rectangle computed in the constructor
    running,         \* Game.running
    loops,           \* pending requestAnimationFrame callbacks of gameLoop
    aiTimers,        \* due time of every setInterval started by startEnemyAI
    now,             \* the wall clock (Date.now / performance.now), ms
    frames,          \* history: clock advances so far
    units,           \* Game.units, in list order
    towers,          \* Game.towers, in list order
    projectiles,     \* Game.projectiles, in list order
    playerElixir,    \* Game.playerElixir
    lastElixirRegen, \* Game.lastElixirRegen, ms
    selectedCard,    \* Game.selectedCard ("none" for null)
    draggingCard,    \* Game.draggingCard
    nextId,          \* identity of the next unit created
    nextPid,         \* identity of the next projectile created
    outcome,         \* result handed to endGame, "none" before
    lastOp,          \* history: the operation that produced this state
    tickLog          \* history: what the phases of the latest tick did

vars == <<canvas, playerZone, enemyZone, running, loops, aiTimers, now, frames, units,
          towers, projectiles, playerElixir, lastElixirRegen, selectedCard,
          draggingCard, nextId, nextPid, outcome, lastOp, tickLog>>

----------------------------------------------------------------------------
(* Bounds of the model and inputs of the environment *)

\* Animation frames (clock advances) explored after start().
MaxFrames == 2
\* Units spawned in one run, both teams together.
MaxUnits == 3
\* Date.now() when the page constructs the Game.
StartTime == 5000

\* Frame durations, ms: a short frame and a frame after the tab was hidden.
DeltaTimes == {500, 3000}

\* Size of the canvas element before setupCanvas runs: the HTML default, and
\* a page that declares width and height attributes.
InitialCanvasSizes == {<<300, 150>>}
\* Width of the canvas container (getBoundingClientRect).
ContainerWidths == {400}

\* The unitTypes array of enemyAI.
UnitTypes == {"knight", "archer", "giant", "wizard"}
\* The cards the player picks from.
CardTypes == {"archer", "giant"}
\* Points the pointer is released at.
MousePoints == {<<200, 75>>, <<200, 150>>, <<200, 74>>}
\* Candidate results of the two Utils.random calls of enemyAI.
SpawnXs == {200}
SpawnYs == {50}

----------------------------------------------------------------------------
(* Geometry: src/unnamed/part_000 *)

Min(a, b) == IF a < b THEN a ELSE b
Max(a, b) == IF a > b THEN a ELSE b

\* Utils.clamp
clamp(value, lo, hi) == Min(Max(value, lo), hi)

\* Mutant of pointInRect: the edges are excluded
pointInRectOpen(point, rect) ==
    /\ point.x > rect.x
    /\ point.x < rect.x + rect.width
    /\ point.y > rect.y
    /\ point.y < rect.y + rect.height

\* Utils.pointInRect
pointInRect(point, rect) ==
    /\ point.x >= rect.x
    /\ point.x <= rect.x + rect.width
    /\ point.y >= rect.y
    /\ point.y <= rect.y + rect.height

\* Vector2D.distanceTo, squared
Dist2(a, b) == (a.x - b.x) * (a.x - b.x) + (a.y - b.y) * (a.y - b.y)

RECURSIVE SqrtSearch(_, _, _)
SqrtSearch(n, lo, hi) ==
    IF lo >= hi THEN lo
    ELSE LET mid == (lo + hi + 1) \div 2
         IN  IF mid * mid <= n THEN SqrtSearch(n, mid, hi)
             ELSE SqrtSearch(n, lo, mid - 1)

\* Math.sqrt, rounded down
ISqrt(n) == SqrtSearch(n, 0, 10001)

RoundDiv(a, b) ==
    IF a >= 0 THEN (2 * a + b) \div (2 * b)
    ELSE 0 - ((2 * (0 - a) + b) \div (2 * b))

\* Vector2D.directionTo(...).multiply(speed * deltaTime): the displacement of
\* one step from `from` towards `to`; the zero vector when the points are equal.
Displacement(from, to, speed, dt) ==
    LET d2 == Dist2(from, to)
        mag10 == ISqrt(d2 * 100)
    IN  IF d2 = 0 THEN [x |-> 0, y |-> 0]
        ELSE [x |-> RoundDiv((to.x - from.x) * speed * dt, 100 * mag10),
              y |-> RoundDiv((to.y - from.y) * speed * dt, 100 * mag10)]

----------------------------------------------------------------------------
(* Entities: Unit (src/js/entities/Unit.js), Tower (src/js/entities/Tower.js) *)

Vec(px, py) == [x |-> px, y |-> py]

\* A reference to a combatant: a unit by identity, a tower by its place in
\* Game.towers, or null.
NoRef == [kind |-> "none", id |-> 0]
UnitRef(u) == [kind |-> "unit", id |-> u.id]
TowerRef(k) == [kind |-> "tower", id |-> k]
ProjRef(p) == [kind |-> "projectile", id |-> p.id]

\* Unit.getUnitStats
getUnitStats(type) ==
    CASE type = "archer" ->
            [health |-> 400, damage |-> 100, speed |-> 40, range |-> 100, radius |-> 12]
      [] type = "giant" ->
            [health |-> 3000, damage |-> 200, speed |-> 20, range |-> 50, radius |-> 25]
      [] type = "wizard" ->
            [health |-> 600, damage |-> 250, speed |-> 35, range |-> 120, radius |-> 12]
      [] OTHER ->
            [health |-> 1200, damage |-> 150, speed |-> 30, range |-> 40, radius |-> 15]

\* Game.getUnitData: only the cost is read from it
getUnitData(type) ==
    CASE type = "giant" -> [cost |-> 5]
      [] type = "wizard" -> [cost |-> 5]
      [] OTHER -> [cost |-> 3]

\* Unit.constructor
NewUnit(id, position, type, team) ==
    LET stats == getUnitStats(type)
    IN  [id |-> id, type |-> type, team |-> team, pos |-> position,
         alive |-> TRUE, maxHealth |-> stats.health, health |-> stats.health,
         damage |-> stats.damage, speed |-> stats.speed,
         attackRange |-> stats.range, radius |-> stats.radius,
         target |-> NoRef, lastAttack |-> 0, attackCooldown |-> 1000]

\* Tower.constructor
NewTower(position, team) ==
    [team |-> team, pos |-> position, alive |-> TRUE, maxHealth |-> 2500,
     health |-> 2500, damage |-> 200, attackRange |-> 150, radius |-> 30,
     target |-> NoRef, lastAttack |-> 0, attackCooldown |-> 800]

\* Mutant of takeDamage: health is not clamped at 0
takeDamageNoClamp(e, amount) ==
    LET h == e.health - amount
    IN  IF h <= 0 THEN [e EXCEPT !.health = h, !.alive = FALSE]
        ELSE [e EXCEPT !.health = h]

\* Unit.takeDamage and Tower.takeDamage
takeDamage(e, amount) ==
    LET h == e.health - amount
    IN  IF h <= 0 THEN [e EXCEPT !.health = 0, !.alive = FALSE]
        ELSE [e EXCEPT !.health = h]

\* The projectile literal of Unit.createProjectile
UnitProjectile(id, u, targetPos) ==
    [id |-> id, pos |-> u.pos, target |-> targetPos, speed |-> 200,
     damage |-> u.damage, team |-> u.team, alive |-> TRUE, type |-> u.type]

\* The projectile literal of Tower.attack
TowerProjectile(id, t, targetPos) ==
    [id |-> id, pos |-> t.pos, target |-> targetPos, speed |-> 300,
     damage |-> t.damage, team |-> t.team, alive |-> TRUE, type |-> "tower"]

\* Distance below which the advance step of a projectile marks it dead
ImpactRadius(p) == IF p.type = "tower" THEN 15 ELSE 10

\* The off-screen test of projectile.update
OffScreen(pos) == pos.x < 0 \/ pos.x > 800 \/ pos.y < 0 \/ pos.y > 600

\* projectile.update (both literals)
ProjectileUpdate(p, dt) ==
    LET d == Displacement(p.pos, p.target, p.speed, dt)
        np == Vec(p.pos.x + d.x, p.pos.y + d.y)
        r == ImpactRadius(p)
        reached == Dist2(np, p.target) < r * r
    IN  [p EXCEPT !.pos = np,
                  !.alive = IF reached \/ OffScreen(np) THEN FALSE ELSE p.alive]

----------------------------------------------------------------------------
(* The world a tick works on: the collections of the Game, the identity    *)
(* counter, whether an exception has been thrown, and the history log.     *)

IndexOfUnit(us, id) ==
    IF \E i \in 1..Len(us) : us[i].id = id
    THEN CHOOSE i \in 1..Len(us) : us[i].id = id
    ELSE 0

\* The combatant a reference denotes (the reference is known to resolve)
Deref(w, ref) ==
    IF ref.kind = "tower" THEN w.towers[ref.id]
    ELSE w.units[IndexOfUnit(w.units, ref.id)]

Resolves(w, ref) ==
    \/ ref.kind = "tower"
    \/ ref.kind = "unit" /\ IndexOfUnit(w.units, ref.id) > 0

\* target.takeDamage(amount), through the reference
DamageRef(w, ref, amount) ==
    IF ref.kind = "tower"
    THEN [w EXCEPT !.towers[ref.id] = takeDamage(@, amount)]
    ELSE [w EXCEPT !.units[IndexOfUnit(w.units, ref.id)] = takeDamage(@, amount)]

Event(ev, by, on, via, elapsed, byAlive, amount) ==
    [ev |-> ev, by |-> by, on |-> on, via |-> via, elapsed |-> elapsed,
     byAlive |-> byAlive, amount |-> amount]

Logged(w, e) == [w EXCEPT !.log = Append(@, e)]

----------------------------------------------------------------------------
(* Unit.update and what it calls *)

\* The forEach scan shared by Unit.findTarget and Tower.findTarget: the index
\* of the closest live unit of the other team (0 for none), the first in list
\* order among equals; limit2 >= 0 keeps only units within that squared range.
RECURSIVE Closest(_, _, _, _, _)
Closest(us, i, me, limit2, best) ==
    IF i > Len(us) THEN best
    ELSE LET u == us[i]
             d == Dist2(me.pos, u.pos)
             better == /\ u.team # me.team
                       /\ u.alive
                       /\ (limit2 < 0 \/ d <= limit2)
                       /\ (best = 0 \/ d < Dist2(me.pos, us[best].pos))
         IN  Closest(us, i + 1, me, limit2, IF better THEN i ELSE best)

\* game.towers.find(tower => tower.team !== this.team && tower.alive)
FindEnemyTower(ts, team) ==
    LET ks == {k \in 1..Len(ts) : ts[k].team # team /\ ts[k].alive}
    IN  IF ks = {} THEN 0 ELSE CHOOSE k \in ks : \A m \in ks : k <= m

\* Mutant of UnitFindTarget: the first live opposing unit of the list
UnitFindTargetFirst(w, me) ==
    LET foes == {j \in 1..Len(w.units) :
                    w.units[j].team # me.team /\ w.units[j].alive}
        k == FindEnemyTower(w.towers, me.team)
    IN  IF foes # {} THEN UnitRef(w.units[CHOOSE j \in foes : \A m \in foes : j <= m])
        ELSE IF k > 0 THEN TowerRef(k)
        ELSE NoRef

\* Unit.findTarget
UnitFindTarget(w, me) ==
    LET best == Closest(w.units, 1, me, 0 - 1, 0)
        k == FindEnemyTower(w.towers, me.team)
    IN  IF best > 0 THEN UnitRef(w.units[best])
        ELSE IF k > 0 THEN TowerRef(k)
        ELSE NoRef

\* Mutant of UnitMove: the new position is not clamped to the canvas
UnitMoveNoClamp(w, u, dt, cv) ==
    IF u.target = NoRef THEN u
    ELSE LET tp == Deref(w, u.target).pos
         IN  IF Dist2(u.pos, tp) <= u.attackRange * u.attackRange THEN u
             ELSE LET d == Displacement(u.pos, tp, u.speed, dt)
                  IN  [u EXCEPT !.pos = Vec(u.pos.x + d.x, u.pos.y + d.y)]

\* Unit.move
UnitMove(w, u, dt, cv) ==
    IF u.target = NoRef THEN u
    ELSE LET tp == Deref(w, u.target).pos
         IN  IF Dist2(u.pos, tp) <= u.attackRange * u.attackRange THEN u
             ELSE LET d == Displacement(u.pos, tp, u.speed, dt)
                  IN  [u EXCEPT !.pos =
                         Vec(clamp(u.pos.x + d.x, u.radius, cv.width - u.radius),
                             clamp(u.pos.y + d.y, u.radius, cv.height - u.radius))]

\* Unit.createProjectile; hasGame is false when the caller passed no game
UnitCreateProjectile(w, i, ref, hasGame, via, t) ==
    LET u == w.units[i]
        e == Event("projectile", UnitRef(u), ref, via, t - u.lastAttack,
                   u.alive, u.damage)
    IN  IF ~hasGame
        THEN [Logged(w, [e EXCEPT !.ev = "fault"]) EXCEPT !.fault = TRUE]
        ELSE [Logged(w, e) EXCEPT
                !.projectiles = Append(@, UnitProjectile(w.nextPid, u, Deref(w, ref).pos)),
                !.nextPid = @ + 1]

\* Mutant of UnitAttack: every type deals its damage directly
UnitAttackDirect(w, i, ref, hasGame, via, t) ==
    LET u == w.units[i]
    IN  Logged(DamageRef(w, ref, u.damage),
               Event("damage", UnitRef(u), ref, via, t - u.lastAttack,
                     u.alive, u.damage))

\* Unit.attack
UnitAttack(w, i, ref, hasGame, via, t) ==
    LET u == w.units[i]
    IN  IF u.type = "archer" \/ u.type = "wizard"
        THEN UnitCreateProjectile(w, i, ref, hasGame, via, t)
        ELSE Logged(DamageRef(w, ref, u.damage),
                    Event("damage", UnitRef(u), ref, via, t - u.lastAttack,
                          u.alive, u.damage))

\* Unit.attemptAttack
UnitAttemptAttack(w, i, t) ==
    LET u == w.units[i]
    IN  IF u.target = NoRef \/ ~Deref(w, u.target).alive THEN w
        ELSE IF t - u.lastAttack < u.attackCooldown THEN w
        ELSE IF Dist2(u.pos, Deref(w, u.target).pos) <= u.attackRange * u.attackRange
        THEN [UnitAttack(w, i, u.target, TRUE, "attemptAttack", t)
                EXCEPT !.units[i].lastAttack = t]
        ELSE w

\* Unit.update
UnitUpdate(w, i, dt, t, cv) ==
    LET u == w.units[i]
    IN  IF ~u.alive THEN w
        ELSE LET found == [u EXCEPT !.target = UnitFindTarget(w, u)]
                 moved == UnitMove(w, found, dt, cv)
             IN  UnitAttemptAttack([w EXCEPT !.units[i] = moved], i, t)

----------------------------------------------------------------------------
(* Tower.update and what it calls *)

\* Mutant of TowerFindTarget: candidates beyond attackRange are kept
TowerFindTargetAnyRange(w, me) ==
    LET best == Closest(w.units, 1, me, 0 - 1, 0)
    IN  IF best > 0 THEN UnitRef(w.units[best]) ELSE NoRef

\* Tower.findTarget
TowerFindTarget(w, me) ==
    LET best == Closest(w.units, 1, me, me.attackRange * me.attackRange, 0)
    IN  IF best > 0 THEN UnitRef(w.units[best]) ELSE NoRef

\* Tower.attack
TowerAttack(w, k, ref, t) ==
    LET tw == w.towers[k]
    IN  [Logged(w, Event("projectile", TowerRef(k), ref, "attemptAttack",
                         t - tw.lastAttack, tw.alive, tw.damage))
           EXCEPT !.projectiles = Append(@, TowerProjectile(w.nextPid, tw, Deref(w, ref).pos)),
                  !.nextPid = @ + 1]

\* Tower.attemptAttack
TowerAttemptAttack(w, k, t) ==
    LET tw == w.towers[k]
    IN  IF tw.target = NoRef \/ ~Deref(w, tw.target).alive THEN w
        ELSE IF t - tw.lastAttack < tw.attackCooldown THEN w
        ELSE IF Dist2(tw.pos, Deref(w, tw.target).pos) <= tw.attackRange * tw.attackRange
        THEN [TowerAttack(w, k, tw.target, t) EXCEPT !.towers[k].lastAttack = t]
        ELSE w

\* Tower.update
TowerUpdate(w, k, t) ==
    LET tw == w.towers[k]
    IN  IF ~tw.alive THEN w
        ELSE TowerAttemptAttack(
                 [w EXCEPT !.towers[k].target = TowerFindTarget(w, tw)], k, t)

----------------------------------------------------------------------------
(* The phases of Game.update.  A phase is skipped once an exception has    *)
(* been thrown (w.fault): the exception leaves update.                     *)

\* Game.maxElixir and Game.elixirRegenRate
maxElixir == 10
elixirRegenRate == 1

\* Mutant of updateElixir: the regenerated amount is not capped at maxElixir
updateElixirNoCap(e, dt) ==
    LET acc == e.lastElixirRegen + dt
    IN  IF acc >= 1000
        THEN [playerElixir |-> e.playerElixir + elixirRegenRate,
              lastElixirRegen |-> 0]
        ELSE [playerElixir |-> e.playerElixir, lastElixirRegen |-> acc]

\* Mutant of updateElixir: the excess over one second is carried over
updateElixirCarry(e, dt) ==
    LET acc == e.lastElixirRegen + dt
    IN  IF acc >= 1000
        THEN [playerElixir |-> Min(e.playerElixir + elixirRegenRate, maxElixir),
              lastElixirRegen |-> acc - 1000]
        ELSE [playerElixir |-> e.playerElixir, lastElixirRegen |-> acc]

\* Game.updateElixir, on [playerElixir, lastElixirRegen]
updateElixir(e, dt) ==
    LET acc == e.lastElixirRegen + dt
    IN  IF acc >= 1000
        THEN [playerElixir |-> Min(e.playerElixir + elixirRegenRate, maxElixir),
              lastElixirRegen |-> 0]
        ELSE [playerElixir |-> e.playerElixir, lastElixirRegen |-> acc]

RECURSIVE UnitsFrom(_, _, _, _, _)
UnitsFrom(w, i, dt, t, cv) ==
    IF i > Len(w.units) THEN w
    ELSE UnitsFrom(UnitUpdate(w, i, dt, t, cv), i + 1, dt, t, cv)

\* Game.updateUnits
updateUnits(w, dt, t, cv) == UnitsFrom(w, 1, dt, t, cv)

\* Mutant of updateProjectiles: a projectile is aimed anew at the first live
\* opposing unit before it advances
updateProjectilesHoming(w, dt) ==
    LET aim(q) ==
            LET foes == {i \in 1..Len(w.units) :
                            w.units[i].team # q.team /\ w.units[i].alive}
            IN  IF foes = {} THEN q
                ELSE [q EXCEPT !.target =
                         w.units[CHOOSE i \in foes : \A m \in foes : i <= m].pos]
    IN  [w EXCEPT !.projectiles =
            [k \in 1..Len(w.projectiles) |->
                ProjectileUpdate(aim(w.projectiles[k]), dt)]]

\* Game.updateProjectiles
updateProjectiles(w, dt) ==
    [w EXCEPT !.projectiles =
        [k \in 1..Len(w.projectiles) |-> ProjectileUpdate(w.projectiles[k], dt)]]

RECURSIVE TowersFrom(_, _, _)
TowersFrom(w, k, t) ==
    IF k > Len(w.towers) THEN w
    ELSE TowersFrom(TowerUpdate(w, k, t), k + 1, t)

\* Game.updateTowers
updateTowers(w, t) == TowersFrom(w, 1, t)

\* Mutant of CollidePair: only the first unit of the pair attacks
CollidePairOneWay(w, i, j, t) ==
    LET u1 == w.units[i]
        u2 == w.units[j]
        d2 == Dist2(u1.pos, u2.pos)
    IN  IF ~u2.alive \/ u1.team = u2.team THEN w
        ELSE IF d2 < u1.attackRange * u1.attackRange
        THEN UnitAttack(w, i, UnitRef(u2), FALSE, "checkCollisions", t)
        ELSE w

\* The body of the inner loop of the unit-vs-unit pass, for the pair (i, j)
CollidePair(w, i, j, t) ==
    LET u1 == w.units[i]
        u2 == w.units[j]
        d2 == Dist2(u1.pos, u2.pos)
    IN  IF ~u2.alive \/ u1.team = u2.team THEN w
        ELSE LET w1 == IF d2 < u1.attackRange * u1.attackRange
                       THEN UnitAttack(w, i, UnitRef(u2), FALSE, "checkCollisions", t)
                       ELSE w
             IN  IF w1.fault THEN w1
                 ELSE IF d2 < u2.attackRange * u2.attackRange
                 THEN UnitAttack(w1, j, UnitRef(u1), FALSE, "checkCollisions", t)
                 ELSE w1

RECURSIVE CollideInner(_, _, _, _)
CollideInner(w, i, j, t) ==
    IF w.fault \/ j > Len(w.units) THEN w
    ELSE CollideInner(CollidePair(w, i, j, t), i, j + 1, t)

RECURSIVE CollideOuter(_, _, _)
CollideOuter(w, i, t) ==
    IF w.fault \/ i > Len(w.units) THEN w
    ELSE IF ~w.units[i].alive THEN CollideOuter(w, i + 1, t)
    ELSE CollideOuter(CollideInner(w, i, i + 1, t), i + 1, t)

\* The body of the inner forEach of the projectile-vs-unit pass
ProjectileHit(w, k, i) ==
    LET p == w.projectiles[k]
        u == w.units[i]
    IN  IF u.team # p.team /\ u.alive /\ Dist2(p.pos, u.pos) < u.radius * u.radius
        THEN [Logged(w, Event("hit", ProjRef(p), UnitRef(u), "checkCollisions",
                              0, p.alive, p.damage))
                EXCEPT !.units[i] = takeDamage(@, p.damage),
                       !.projectiles[k].alive = FALSE]
        ELSE w

RECURSIVE HitsInner(_, _, _)
HitsInner(w, k, i) ==
    IF i > Len(w.units) THEN w
    ELSE HitsInner(ProjectileHit(w, k, i), k, i + 1)

RECURSIVE HitsOuter(_, _)
HitsOuter(w, k) ==
    IF k > Len(w.projectiles) THEN w
    ELSE HitsOuter(HitsInner(w, k, 1), k + 1)

\* Mutant of checkCollisions: a projectile inside the radius of a live tower
\* of the other team damages it
checkCollisionsTowers(w, t) ==
    LET paired == CollideOuter(w, 1, t)
        struck(v, j) ==
            {k \in 1..Len(v.projectiles) :
                /\ v.projectiles[k].team # v.towers[j].team
                /\ Dist2(v.projectiles[k].pos, v.towers[j].pos)
                      < v.towers[j].radius * v.towers[j].radius}
        onTowers(v) ==
            [v EXCEPT !.towers =
                [j \in 1..Len(v.towers) |->
                    IF v.towers[j].alive /\ struck(v, j) # {}
                    THEN takeDamage(v.towers[j],
                                    v.projectiles[CHOOSE k \in struck(v, j) : TRUE].damage)
                    ELSE v.towers[j]]]
    IN  IF paired.fault THEN paired ELSE onTowers(HitsOuter(paired, 1))

\* Game.checkCollisions
checkCollisions(w, t) ==
    LET paired == CollideOuter(w, 1, t)
    IN  IF paired.fault THEN paired ELSE HitsOuter(paired, 1)

IsAlive(e) == e.alive

\* Mutant of cleanupEntities: dead towers are removed as well
cleanupEntitiesTowers(w) ==
    [w EXCEPT !.units = SelectSeq(@, IsAlive),
              !.projectiles = SelectSeq(@, IsAlive),
              !.towers = SelectSeq(@, IsAlive)]

\* Mutant of cleanupEntities: dead units stay in the list
cleanupEntitiesProjectiles(w) ==
    [w EXCEPT !.projectiles = SelectSeq(@, IsAlive)]

\* Game.cleanupEntities
cleanupEntities(w) ==
    [w EXCEPT !.units = SelectSeq(@, IsAlive),
              !.projectiles = SelectSeq(@, IsAlive)]

\* towers.find(t => t.team === team)
TowerOf(ts, team) == ts[CHOOSE k \in 1..Len(ts) :
                          /\ ts[k].team = team
                          /\ \A m \in 1..(k - 1) : ts[m].team # team]

\* Mutant of checkWinConditions: the enemy tower is tested first
checkWinConditionsEnemyFirst(ts) ==
    IF ~TowerOf(ts, "enemy").alive THEN "victory"
    ELSE IF ~TowerOf(ts, "player").alive THEN "defeat"
    ELSE "none"

\* Game.checkWinConditions: the result handed to endGame, "none" for no call;
\* "fault" when find returns undefined and reading its alive field throws
checkWinConditions(ts) ==
    IF \E team \in {"player", "enemy"} : \A k \in 1..Len(ts) : ts[k].team # team
    THEN "fault"
    ELSE IF ~TowerOf(ts, "player").alive THEN "defeat"
    ELSE IF ~TowerOf(ts, "enemy").alive THEN "victory"
    ELSE "none"

\* Mutant of update: the towers are advanced before the projectiles
updateTowersEarly(w, dt, t, cv) ==
    LET a == updateUnits(w, dt, t, cv)
        b == updateTowers(a, t)
        c == updateProjectiles(b, dt)
        d == checkCollisions(c, t)
    IN  IF d.fault THEN d ELSE cleanupEntities(d)

\* Game.update on the collections, after updateElixir
update(w, dt, t, cv) ==
    LET a == updateUnits(w, dt, t, cv)
        b == updateProjectiles(a, dt)
        c == updateTowers(b, t)
        d == checkCollisions(c, t)
    IN  IF d.fault THEN d ELSE cleanupEntities(d)

----------------------------------------------------------------------------
(* The state after new Game() *)

\* Game.constructor: the zones are computed from the canvas as it is before
\* setupCanvas resizes it
Zones(w0, h0) ==
    [player |-> [x |-> 0, y |-> h0 \div 2, width |-> w0, height |-> h0 \div 2],
     enemy |-> [x |-> 0, y |-> 0, width |-> w0, height |-> h0 \div 2]]

\* Game.setupCanvas
setupCanvas(containerWidth) == [width |-> containerWidth, height |-> 500]

\* Game.initializeTowers
initializeTowers(cv) ==
    <<NewTower(Vec(cv.width \div 2, cv.height - 50), "player"),
      NewTower(Vec(cv.width \div 2, 50), "enemy")>>

\* History record: the operation, its result, the frame duration it was given
\* (ticks) and the pointer position it was given (commits)
Op(name, result, dt) ==
    [name |-> name, result |-> result, dt |-> dt, at |-> Vec(0, 0)]

Init ==
    \E c0 \in InitialCanvasSizes, cw \in ContainerWidths :
        /\ canvas = setupCanvas(cw)
        /\ playerZone = Zones(c0[1], c0[2]).player
        /\ enemyZone = Zones(c0[1], c0[2]).enemy
        /\ towers = initializeTowers(setupCanvas(cw))
        /\ running = FALSE
        /\ loops = 0
        /\ aiTimers = <<>>
        /\ now = StartTime
        /\ frames = 0
        /\ units = <<>>
        /\ projectiles = <<>>
        /\ playerElixir = 10
        /\ lastElixirRegen = 0
        /\ selectedCard = "none"
        /\ draggingCard = FALSE
        /\ nextId = 1
        /\ nextPid = 1
        /\ outcome = "none"
        /\ lastOp = Op("constructor", "ok", 0)
        /\ tickLog = <<>>

----------------------------------------------------------------------------
(* Placement: Game.selectCard, tryPlaceUnit, cancelCardPlacement, spawnUnit *)

\* Game.spawnUnit
spawnUnit(us, id, type, position, team) == Append(us, NewUnit(id, position, type, team))

\* Which branch Game.tryPlaceUnit takes
PlaceResult(card, point, zone, elixir) ==
    IF card = "none" THEN "noSelection"
    ELSE IF ~pointInRect(point, zone) THEN "outOfZone"
    ELSE IF elixir >= getUnitData(card).cost THEN "spawned"
    ELSE "insufficient"

\* Mutant of tryPlaceUnit: a refused commit returns without cancelling
tryPlaceUnitKeep(point, name) ==
    LET res == PlaceResult(selectedCard, point, playerZone, playerElixir)
    IN  /\ res = "spawned" => nextId <= MaxUnits
        /\ IF res = "spawned"
           THEN /\ units' = spawnUnit(units, nextId, selectedCard, point, "player")
                /\ playerElixir' = playerElixir - getUnitData(selectedCard).cost
                /\ nextId' = nextId + 1
                /\ selectedCard' = "none"
                /\ draggingCard' = FALSE
           ELSE UNCHANGED <<units, playerElixir, nextId, selectedCard, draggingCard>>
        /\ lastOp' = [Op(name, res, 0) EXCEPT !.at = point]

\* Game.tryPlaceUnit with Game.cancelCardPlacement, at the point `point`
tryPlaceUnit(point, name) ==
    LET res == PlaceResult(selectedCard, point, playerZone, playerElixir)
    IN  /\ res = "spawned" => nextId <= MaxUnits
        /\ IF res = "spawned"
           THEN /\ units' = spawnUnit(units, nextId, selectedCard, point, "player")
                /\ playerElixir' = playerElixir - getUnitData(selectedCard).cost
                /\ nextId' = nextId + 1
           ELSE UNCHANGED <<units, playerElixir, nextId>>
        /\ selectedCard' = "none"
        /\ draggingCard' = FALSE
        /\ lastOp' = [Op(name, res, 0) EXCEPT !.at = point]

\* Game.selectCard
SelectCard(type) ==
    /\ selectedCard' = type
    /\ draggingCard' = TRUE
    /\ lastOp' = Op("selectCard", type, 0)
    /\ UNCHANGED <<canvas, playerZone, enemyZone, running, loops, aiTimers, now,
                   frames, units, towers, projectiles, playerElixir, lastElixirRegen,
                   nextId, nextPid, outcome, tickLog>>

\* Game.handleMouseUp and Game.handleTouchEnd with a card being dragged: the
\* pointer is released at p (updateMousePosition, or the last touch position)
\* and tryPlaceUnit runs.  Without a dragged card the handlers change nothing.
HandleMouseUp(p) ==
    /\ selectedCard # "none"
    /\ draggingCard
    /\ tryPlaceUnit(p, "handleMouseUp")
    /\ UNCHANGED <<canvas, playerZone, enemyZone, running, loops, aiTimers, now,
                   frames, towers, projectiles, lastElixirRegen, nextPid, outcome, tickLog>>

\* Game.tryPlaceUnit called with no card selected (the commit operation of
\* the interface used out of turn), the pointer being at p
TryPlaceUnit(p) ==
    /\ selectedCard = "none"
    /\ tryPlaceUnit(p, "tryPlaceUnit")
    /\ UNCHANGED <<canvas, playerZone, enemyZone, running, loops, aiTimers, now,
                   frames, towers, projectiles, lastElixirRegen, nextPid, outcome, tickLog>>

----------------------------------------------------------------------------
(* The tick loop and the opponent timer *)

World == [units |-> units, towers |-> towers, projectiles |-> projectiles,
          nextPid |-> nextPid, fault |-> FALSE, log |-> <<>>]

\* The body of Game.gameLoop once running has been tested: update(deltaTime)
\* at clock time t, then endGame when checkWinConditions calls it.  The frame
\* callback is requested again unless update threw.
RunUpdate(name, dt, t, pending) ==
    \E e \in {updateElixir([playerElixir |-> playerElixir,
                            lastElixirRegen |-> lastElixirRegen], dt)},
       w \in {update(World, dt, t, canvas)} :
        \E res \in {IF w.fault THEN "fault" ELSE checkWinConditions(w.towers)} :
            /\ playerElixir' = e.playerElixir
            /\ lastElixirRegen' = e.lastElixirRegen
            /\ units' = w.units
            /\ towers' = w.towers
            /\ projectiles' = w.projectiles
            /\ nextPid' = w.nextPid
            /\ tickLog' = w.log
            /\ loops' = IF res = "fault" THEN pending ELSE pending + 1
            /\ running' = (res \in {"none", "fault"})
            /\ outcome' = IF res \in {"none", "fault"} THEN outcome ELSE res
            /\ lastOp' = Op(name, res, dt)

\* Game.start: running is set, gameLoop runs at once (deltaTime 0), then
\* startEnemyAI sets the interval (not reached when gameLoop threw)
Start ==
    /\ RunUpdate("start", 0, now, loops)
    /\ aiTimers' = IF loops' > loops THEN Append(aiTimers, now + 3000) ELSE aiTimers
    /\ UNCHANGED <<canvas, playerZone, enemyZone, now, frames, selectedCard,
                   draggingCard, nextId>>

\* Game.stop
Stop ==
    /\ running' = FALSE
    /\ lastOp' = Op("stop", "ok", 0)
    /\ UNCHANGED <<canvas, playerZone, enemyZone, loops, aiTimers, now, frames,
                   units, towers, projectiles, playerElixir, lastElixirRegen,
                   selectedCard, draggingCard, nextId, nextPid,
                   outcome, tickLog>>

TimerDue == \E k \in 1..Len(aiTimers) : aiTimers[k] <= now

\* Mutant of GameLoop: the callback does not test running
GameLoopAlways(dt) ==
    /\ loops > 0
    /\ ~TimerDue
    /\ frames < MaxFrames
    /\ frames' = frames + 1
    /\ now' = now + dt
    /\ RunUpdate("gameLoop", dt, now + dt, loops - 1)
    /\ UNCHANGED <<canvas, playerZone, enemyZone, aiTimers, selectedCard,
                   draggingCard, nextId>>

\* Game.gameLoop as a frame callback, dt ms after the previous one.  A timer
\* that is due fires before the next frame.
GameLoop(dt) ==
    /\ loops > 0
    /\ ~TimerDue
    /\ frames < MaxFrames
    /\ frames' = frames + 1
    /\ now' = now + dt
    /\ IF running
       THEN RunUpdate("gameLoop", dt, now + dt, loops - 1)
       ELSE /\ loops' = loops - 1
            /\ lastOp' = Op("gameLoop", "stopped", dt)
            /\ UNCHANGED <<running, units, towers, projectiles, playerElixir,
                           lastElixirRegen, nextPid, outcome, tickLog>>
    /\ UNCHANGED <<canvas, playerZone, enemyZone, aiTimers, selectedCard,
                   draggingCard, nextId>>

\* A value Utils.random(lo, hi) can return: Math.random() is in [0, 1)
RandomRange(lo, hi, v) ==
    IF hi > lo THEN lo <= v /\ v < hi
    ELSE IF hi < lo THEN hi < v /\ v <= lo
    ELSE v = lo

\* Mutant of enemyAI: the unit is spawned in the lower half of the canvas
enemyAILower(type, x, y) ==
    /\ RandomRange(100, canvas.width - 100, x)
    /\ RandomRange(50, enemyZone.height - 50, y)
    /\ nextId <= MaxUnits
    /\ units' = spawnUnit(units, nextId, type, Vec(x, canvas.height - y), "enemy")
    /\ nextId' = nextId + 1

\* Game.enemyAI
enemyAI(type, x, y) ==
    /\ RandomRange(100, canvas.width - 100, x)
    /\ RandomRange(50, enemyZone.height - 50, y)
    /\ nextId <= MaxUnits
    /\ units' = spawnUnit(units, nextId, type, Vec(x, y), "enemy")
    /\ nextId' = nextId + 1

\* Mutant of EnemyAITimer: the callback does not test running
EnemyAITimerAlways(k, type, x, y) ==
    /\ aiTimers[k] <= now
    /\ aiTimers' = [aiTimers EXCEPT ![k] = @ + 3000]
    /\ enemyAI(type, x, y)
    /\ lastOp' = Op("enemyAI", IF running THEN type ELSE "notRunning", 0)
    /\ UNCHANGED <<canvas, playerZone, enemyZone, running, loops, now, frames,
                   towers, projectiles, playerElixir, lastElixirRegen, selectedCard,
                   draggingCard, nextPid, outcome, tickLog>>

\* The interval callback of Game.startEnemyAI, for the k-th interval
EnemyAITimer(k, type, x, y) ==
    /\ aiTimers[k] <= now
    /\ aiTimers' = [aiTimers EXCEPT ![k] = @ + 3000]
    /\ IF running
       THEN /\ enemyAI(type, x, y)
            /\ lastOp' = Op("enemyAI", type, 0)
       ELSE /\ lastOp' = Op("enemyAI", "notRunning", 0)
            /\ UNCHANGED <<units, nextId>>
    /\ UNCHANGED <<canvas, playerZone, enemyZone, running, loops, now, frames,
                   towers, projectiles, playerElixir, lastElixirRegen, selectedCard,
                   draggingCard, nextPid, outcome, tickLog>>

\* main.js constructs the Game and starts it in one task: start() is the
\* first operation, and input and timers follow it.
Constructed == lastOp.name = "constructor"

Next ==
    \/ Constructed /\ Start
    \/ \E dt \in DeltaTimes : GameLoop(dt)
    \/ \E k \in 1..Len(aiTimers), type \in UnitTypes, x \in SpawnXs, y \in SpawnYs :
           EnemyAITimer(k, type, x, y)
    \/ \E type \in CardTypes : ~Constructed /\ SelectCard(type)
    \/ \E p \in MousePoints : ~Constructed /\ HandleMouseUp(Vec(p[1], p[2]))
    \/ \E p \in MousePoints : ~Constructed /\ TryPlaceUnit(Vec(p[1], p[2]))

Spec == Init /\ [][Next]_vars

----------------------------------------------------------------------------
(* A match in progress: the Game some time after start(), with the loop and *)
(* the opponent timer registered, for the operations of a late match        *)

LateTime == 60000
\* Frame durations of the late match
LateDeltaTimes == {500, 600, 3000}
\* Release points of the late match: those of MousePoints and one at the
\* left edge of the zone
LatePoints == MousePoints \cup {<<5, 150>>}

\* A knight at (200, y) that last attacked at time la (0: never)
Knight(id, y, team, la) ==
    [NewUnit(id, Vec(200, y), "knight", team) EXCEPT !.lastAttack = la]

\* Units on the field and the damage the towers have taken so far:
\* no units, with each tower standing or destroyed; an enemy knight and a
\* player knight 20 apart, each one new or 400 ms after its last attack; a
\* newly spawned enemy knight facing a player archer and, closer, a player
\* giant; a giant in reach of a worn tower; a player knight and, after it in
\* the list, an enemy knight worn down to 300; an enemy knight and, after it
\* in the list and 65 from the enemy tower, a player knight worn down to 150
LateScenes ==
    {[units |-> <<>>, player |-> hp, enemy |-> he] : hp, he \in {0, 2500}}
    \cup {[units |-> <<Knight(1, 95, "enemy", la1), Knight(2, 115, "player", la2)>>,
           player |-> 0, enemy |-> 0] : la1, la2 \in {0, LateTime - 400}}
    \cup {[units |-> <<NewUnit(1, Vec(200, 50), "knight", "enemy"),
                       NewUnit(2, Vec(200, 150), "archer", "player"),
                       NewUnit(3, Vec(200, 75), "giant", "player")>>,
           player |-> 0, enemy |-> 0]}
    \cup {[units |-> <<NewUnit(1, Vec(200, 90), "giant", "player")>>,
           player |-> 0, enemy |-> 2400],
          [units |-> <<NewUnit(1, Vec(200, 410), "giant", "enemy")>>,
           player |-> 2400, enemy |-> 0]}
    \cup {[units |-> <<Knight(1, 115, "player", 0),
                       takeDamage(Knight(2, 95, "enemy", 0), 900)>>,
           player |-> 0, enemy |-> 0],
          [units |-> <<Knight(1, 95, "enemy", 0),
                       takeDamage(Knight(2, 115, "player", 0), 1050)>>,
           player |-> 0, enemy |-> 0]}

InitLate ==
    \E c0 \in InitialCanvasSizes, cw \in ContainerWidths, sc \in LateScenes :
        /\ canvas = setupCanvas(cw)
        /\ playerZone = Zones(c0[1], c0[2]).player
        /\ enemyZone = Zones(c0[1], c0[2]).enemy
        /\ towers = LET ts == initializeTowers(setupCanvas(cw))
                    IN  <<IF sc.player > 0 THEN takeDamage(ts[1], sc.player) ELSE ts[1],
                          IF sc.enemy > 0 THEN takeDamage(ts[2], sc.enemy) ELSE ts[2]>>
        /\ running = TRUE
        /\ loops = 1
        /\ aiTimers = <<LateTime + 1000>>
        /\ now = LateTime
        /\ frames = 0
        /\ units = sc.units
        /\ projectiles = <<>>
        /\ playerElixir = 5
        /\ lastElixirRegen = 0
        /\ selectedCard = "none"
        /\ draggingCard = FALSE
        /\ nextId = Max(MaxUnits, Len(sc.units) + 1)
        /\ nextPid = 1
        /\ outcome = "none"
        /\ lastOp = Op("earlier", "none", 0)
        /\ tickLog = <<>>

NextLate ==
    \/ \E dt \in LateDeltaTimes : GameLoop(dt)
    \/ \E k \in 1..Len(aiTimers), type \in UnitTypes, x \in SpawnXs, y \in SpawnYs :
           EnemyAITimer(k, type, x, y)
    \/ \E type \in CardTypes : SelectCard(type)
    \/ \E p \in LatePoints : HandleMouseUp(Vec(p[1], p[2]))
    \/ \E p \in MousePoints : TryPlaceUnit(Vec(p[1], p[2]))

SpecLate == InitLate /\ [][NextLate]_vars

----------------------------------------------------------------------------
(* A match in progress with the control operations start() and stop(), a    *)
(* release point at the left edge of the zone and an enemy archer on its    *)
(* way to the player tower                                                  *)

\* start() calls in a run, the one before the first state included
MaxStarts == 2
FieldDeltaTimes == {500, 1000}
FieldCards == {"giant"}
FieldPoints == {<<5, 150>>, <<200, 74>>}
FieldSpawnTypes == {"knight"}

\* The units on the field: none, or an enemy archer 120 from the player
\* tower that has not attacked yet
FieldScenes == {<<>>, <<NewUnit(1, Vec(200, 330), "archer", "enemy")>>}

InitField ==
    \E c0 \in InitialCanvasSizes, cw \in ContainerWidths, sc \in FieldScenes :
        /\ canvas = setupCanvas(cw)
        /\ playerZone = Zones(c0[1], c0[2]).player
        /\ enemyZone = Zones(c0[1], c0[2]).enemy
        /\ towers = initializeTowers(setupCanvas(cw))
        /\ running = TRUE
        /\ loops = 1
        /\ aiTimers = <<LateTime + 1000>>
        /\ now = LateTime
        /\ frames = 0
        /\ units = sc
        /\ projectiles = <<>>
        /\ playerElixir = 5
        /\ lastElixirRegen = 0
        /\ selectedCard = "none"
        /\ draggingCard = FALSE
        /\ nextId = MaxUnits
        /\ nextPid = 1
        /\ outcome = "none"
        /\ lastOp = Op("earlier", "none", 0)
        /\ tickLog = <<>>

\* Game.start called on a Game that has been started before
Restart == Len(aiTimers) < MaxStarts /\ Start

NextField ==
    \/ \E dt \in FieldDeltaTimes : GameLoop(dt)
    \/ \E k \in 1..Len(aiTimers), type \in FieldSpawnTypes, x \in SpawnXs, y \in SpawnYs :
           EnemyAITimer(k, type, x, y)
    \/ \E type \in FieldCards : SelectCard(type)
    \/ \E p \in FieldPoints : HandleMouseUp(Vec(p[1], p[2]))
    \/ \E p \in FieldPoints : TryPlaceUnit(Vec(p[1], p[2]))
    \/ Stop
    \/ Restart

SpecField == InitField /\ [][NextField]_vars

----------------------------------------------------------------------------
(* Projectiles in flight over an empty field: a match in progress in which  *)
(* a play has left projectiles in flight and no unit, and frames that keep  *)
(* coming                                                                   *)

\* Frame durations, of the flight and of the play before it
FlightDeltaTimes == {100, 300, 500}

\* The frames of the play before the flight, one duration each
FlightPlays == [1..4 -> FlightDeltaTimes]

\* The clock after the first k frames of a play that began at LateTime
RECURSIVE Elapsed(_, _)
Elapsed(play, k) == IF k = 0 THEN LateTime ELSE Elapsed(play, k - 1) + play[k]

\* The field after the first k frames of a play that began with no
\* projectile in flight and one unit, a player archer placed at the upper
\* edge of the player's zone, 100 from the enemy tower: Game.update, frame
\* after frame
RECURSIVE Played(_, _, _)
Played(play, k, cv) ==
    IF k = 0
    THEN [units |-> <<NewUnit(1, Vec(200, 150), "archer", "player")>>,
          towers |-> initializeTowers(cv), projectiles |-> <<>>,
          nextPid |-> 1, fault |-> FALSE, log |-> <<>>]
    ELSE CHOOSE w \in {IF v.fault THEN v
                        ELSE [update(v, play[k], Elapsed(play, k), cv)
                                  EXCEPT !.log = <<>>] :
                            v \in {Played(play, k - 1, cv)}} : TRUE

\* The flight begins where a play has left projectiles in flight and no unit
InitFlight ==
    \E c0 \in InitialCanvasSizes, cw \in ContainerWidths, play \in FlightPlays :
        \E w \in {Played(play, 4, setupCanvas(cw))} :
            /\ ~w.fault
            /\ w.units = <<>>
            /\ w.projectiles # <<>>
            /\ canvas = setupCanvas(cw)
            /\ playerZone = Zones(c0[1], c0[2]).player
            /\ enemyZone = Zones(c0[1], c0[2]).enemy
            /\ towers = w.towers
            /\ running = TRUE
            /\ loops = 1
            /\ aiTimers = <<LateTime + 3000>>
            /\ now = Elapsed(play, 4)
            /\ frames = 0
            /\ units = w.units
            /\ projectiles = w.projectiles
            /\ playerElixir = 5
            /\ lastElixirRegen = 0
            /\ selectedCard = "none"
            /\ draggingCard = FALSE
            /\ nextId = 2
            /\ nextPid = w.nextPid
            /\ outcome = "none"
            /\ lastOp = Op("earlier", "none", 0)
            /\ tickLog = <<>>

\* Whether a frame callback is pending that will run a tick: the guard of
\* FlightLoop
FlightReady == loops > 0 /\ running /\ units = <<>>

\* Game.gameLoop as a frame callback, dt ms after the previous one, with no
\* unit on the field.  The clock is read only by attemptAttack, after its
\* test of a target, and with no unit on the field findTarget leaves every
\* tower without one: the reading is left out and the frames are not
\* counted.
FlightLoop(dt) ==
    /\ FlightReady
    /\ RunUpdate("gameLoop", dt, now, loops - 1)
    /\ UNCHANGED <<canvas, playerZone, enemyZone, aiTimers, now, frames,
                   selectedCard, draggingCard, nextId>>

NextFlight ==
    \/ \E dt \in FlightDeltaTimes : FlightLoop(dt)
    \/ \E type \in CardTypes : SelectCard(type)

\* A step in which the frame callback ran.  The first disjunct only settles
\* ENABLED FrameRuns, which is FlightReady, without running a tick: a step
\* of the flight satisfies it only when it is a FlightLoop step as well, so
\* the steps of FrameRuns in a behaviour of the flight are the steps of
\* FlightLoop.
FrameRuns ==
    \/ /\ FlightReady
       /\ \E dt \in FlightDeltaTimes : lastOp' = Op("gameLoop", "none", dt)
       /\ UNCHANGED <<canvas, playerZone, enemyZone, running, loops, aiTimers,
                      now, frames, units, towers, projectiles, playerElixir,
                      lastElixirRegen, selectedCard, draggingCard, nextId,
                      nextPid, outcome, tickLog>>
    \/ \E dt \in FlightDeltaTimes : FlightLoop(dt)

\* requestAnimationFrame keeps calling the frame callback it was given
SpecFlight ==
    /\ InitFlight
    /\ [][NextFlight]_vars
    /\ WF_vars(FrameRuns)

----------------------------------------------------------------------------
(* Steps, for the properties below *)

\* A step that is a placement commit (tryPlaceUnit ran)
CommitStep == lastOp' # lastOp /\ lastOp'.name \in {"handleMouseUp", "tryPlaceUnit"}
\* A state reached by a placement commit
Committed == lastOp.name \in {"handleMouseUp", "tryPlaceUnit"}

\* A step in which Game.update ran (a frame of the loop, or start)
TickStep ==
    /\ lastOp'.name \in {"gameLoop", "start"}
    /\ lastOp'.result # "stopped"
    /\ (frames' # frames \/ lastOp'.name = "start")
\* A state reached by such a step
Ticked == lastOp.name \in {"gameLoop", "start"} /\ lastOp.result # "stopped"

Cost(card) == IF card \in {"giant", "wizard"} THEN 5 ELSE 3

----------------------------------------------------------------------------
(* C1: playerElixir stays within 0..maxElixir after any sequence of ticks,  *)
(* selections, commits and opponent spawns, and a commit made while         *)
(* playerElixir is below the cost of the selected type does not decrease it *)
C1_ResourceBounds ==
    /\ [](playerElixir \in 0..10)
    /\ [][(CommitStep /\ selectedCard # "none" /\ playerElixir < Cost(selectedCard))
            => playerElixir' >= playerElixir]_vars

\* A commit was refused for lack of elixir, with less than the cheapest cost left
C1_Witness ==
    /\ Committed
    /\ lastOp.result = "insufficient"
    /\ playerElixir < 3
    /\ Len(units) = 2

----------------------------------------------------------------------------
(* C2: with a card selected, a commit adds a unit if and only if the point  *)
(* is in the player zone (edges included) and playerElixir covers the cost; *)
(* then exactly one unit of the selected type and team player is appended   *)
(* at the point and the cost is spent; otherwise units and playerElixir are *)
(* unchanged                                                                *)
InZone(p) ==
    /\ p.x >= playerZone.x
    /\ p.x <= playerZone.x + playerZone.width
    /\ p.y >= playerZone.y
    /\ p.y <= playerZone.y + playerZone.height

C2_ZoneLegality ==
    [][(CommitStep /\ selectedCard # "none") =>
         IF InZone(lastOp'.at) /\ playerElixir >= Cost(selectedCard)
         THEN /\ Len(units') = Len(units) + 1
              /\ SubSeq(units', 1, Len(units)) = units
              /\ units'[Len(units')].type = selectedCard
              /\ units'[Len(units')].team = "player"
              /\ units'[Len(units')].pos = lastOp'.at
              /\ playerElixir' = playerElixir - Cost(selectedCard)
         ELSE units' = units /\ playerElixir' = playerElixir]_vars

\* A unit was placed on the upper edge of the player zone
C2_Witness ==
    /\ Committed
    /\ lastOp.result = "spawned"
    /\ lastOp.at.y = playerZone.y
    /\ units # <<>>
    /\ units[Len(units)].pos = lastOp.at
    /\ playerElixir < 10

(* C3: after every commit attempt, spawned or refused, no card is selected  *)
(* and no drag is active; a refused attempt changes nothing else            *)
C3_CommitAlwaysCancels ==
    [][CommitStep =>
         /\ selectedCard' = "none"
         /\ draggingCard' = FALSE
         /\ (lastOp'.result # "spawned" =>
               UNCHANGED <<canvas, playerZone, enemyZone, running, loops, aiTimers,
                           now, frames, units, towers, projectiles, playerElixir,
                           lastElixirRegen, nextId, nextPid, outcome, tickLog>>)]_vars

\* A commit outside the zone was refused and the selection is gone
C3_Witness ==
    /\ Committed
    /\ lastOp.result = "outOfZone"
    /\ selectedCard = "none"
    /\ ~draggingCard

(* C4: the rectangle a commit validates against is the lower half of the    *)
(* playfield in use: x in [0, width], y in [height/2, height] of the canvas *)
(* the towers are placed on                                                 *)
C4_ZoneIsLowerHalf ==
    playerZone = [x |-> 0, y |-> canvas.height \div 2,
                  width |-> canvas.width, height |-> canvas.height \div 2]

----------------------------------------------------------------------------
(* C5: for every unit and tower, over any sequence of operations, health    *)
(* never increases and is never negative, alive is false exactly when       *)
(* health is 0, and a combatant that is not alive never becomes alive again *)
C5_HealthMonotone ==
    /\ [](/\ \A k \in 1..Len(towers) :
                /\ towers[k].health >= 0
                /\ towers[k].alive <=> towers[k].health > 0
          /\ \A i \in 1..Len(units) :
                /\ units[i].health >= 0
                /\ units[i].alive <=> units[i].health > 0)
    /\ [][/\ \A k \in 1..Len(towers) :
                /\ towers'[k].health <= towers[k].health
                /\ ~towers[k].alive => ~towers'[k].alive
          /\ \A i \in 1..Len(units), j \in 1..Len(units') :
                units'[j].id = units[i].id =>
                    /\ units'[j].health <= units[i].health
                    /\ ~units[i].alive => ~units'[j].alive]_vars

\* A tower with 100 health left took a blow of 200 in the latest tick and is
\* destroyed, its health 0
C5_Witness ==
    /\ Ticked
    /\ \E k \in 1..Len(towers) :
          /\ ~towers[k].alive
          /\ towers[k].health = 0
          /\ \E n \in 1..Len(tickLog) :
                /\ tickLog[n].ev = "damage"
                /\ tickLog[n].on = TowerRef(k)
                /\ tickLog[n].amount = 200

----------------------------------------------------------------------------
(* C6: every attack effect of a unit or tower (damage dealt, projectile     *)
(* created) happens at least attackCooldown ms (1000 for units, 800 for     *)
(* towers) after its lastAttack, and sets its lastAttack to the current time *)
C6_CooldownGating ==
    \A n \in 1..Len(tickLog) :
        tickLog[n].ev \in {"damage", "projectile"} =>
            /\ tickLog[n].elapsed >=
                   (IF tickLog[n].by.kind = "tower" THEN 800 ELSE 1000)
            /\ (tickLog[n].by.kind = "unit" /\ IndexOfUnit(units, tickLog[n].by.id) > 0)
                   => units[IndexOfUnit(units, tickLog[n].by.id)].lastAttack = now

----------------------------------------------------------------------------
(* C7: a projectile damages at most one unit: no two hits of the collision  *)
(* pass of a tick are by the same projectile                                *)
C7_ProjectileHitsOnce ==
    \A m, n \in 1..Len(tickLog) :
        (/\ tickLog[m].ev = "hit"
         /\ tickLog[n].ev = "hit"
         /\ tickLog[m].by = tickLog[n].by) => m = n

----------------------------------------------------------------------------
(* C8: a tick that reaches the win check ends the match in defeat exactly   *)
(* when the player tower is dead, in victory exactly when the player tower  *)
(* is alive and the enemy tower is dead, and leaves the match running       *)
(* otherwise; with both towers dead the outcome is defeat                   *)
TowerAlive(ts, team) == \E k \in 1..Len(ts) : ts[k].team = team /\ ts[k].alive

C8_WinPrecedence ==
    [][(TickStep /\ lastOp'.result # "fault") =>
         /\ lastOp'.result = "defeat" <=> ~TowerAlive(towers', "player")
         /\ lastOp'.result = "victory" <=>
                (TowerAlive(towers', "player") /\ ~TowerAlive(towers', "enemy"))
         /\ lastOp'.result = "none" <=>
                (TowerAlive(towers', "player") /\ TowerAlive(towers', "enemy"))
         /\ running' = (lastOp'.result = "none")
         /\ outcome' = IF lastOp'.result = "none" THEN outcome ELSE lastOp'.result]_vars

\* The win check of a tick found both towers dead: defeat
C8_Witness ==
    /\ Ticked
    /\ ~TowerAlive(towers, "player")
    /\ ~TowerAlive(towers, "enemy")
    /\ lastOp.result = "defeat"
    /\ outcome = "defeat"
    /\ ~running

----------------------------------------------------------------------------
(* C9: a tick adds at most elixirRegenRate to playerElixir whatever its     *)
(* deltaTime; it adds only when lastElixirRegen + deltaTime reaches one     *)
(* second, and then lastElixirRegen is reset to 0, the excess discarded;    *)
(* otherwise lastElixirRegen grows by deltaTime                             *)
C9_RegenOncePerTick ==
    [][TickStep =>
         /\ playerElixir' <= playerElixir + 1
         /\ IF lastElixirRegen + lastOp'.dt >= 1000
            THEN /\ playerElixir' = IF playerElixir < 10 THEN playerElixir + 1 ELSE 10
                 /\ lastElixirRegen' = 0
            ELSE /\ playerElixir' = playerElixir
                 /\ lastElixirRegen' = lastElixirRegen + lastOp'.dt]_vars

\* From accumulator 0, a tick of 0.5 s then one of 0.6 s: one elixir was
\* added (5 to 6) and the accumulator is 0, not 0.1 s
C9_Witness ==
    /\ Ticked
    /\ frames = 2
    /\ lastOp.dt = 600
    /\ now = LateTime + 1100
    /\ lastElixirRegen = 0
    /\ playerElixir = 6

----------------------------------------------------------------------------
(* C10: with a player knight and an enemy knight 20 apart, no other units   *)
(* and no projectile in flight, one tick takes from each knight 150 in the  *)
(* collision pass whatever the cooldown timers are, and a further 150 when  *)
(* at least 1000 ms have passed since the other knight's lastAttack (its    *)
(* own attack of that tick), 300 for a knight facing a new one              *)
KnightClash ==
    /\ Len(units) = 2
    /\ projectiles = <<>>
    /\ units[1].team # units[2].team
    /\ Dist2(units[1].pos, units[2].pos) = 20 * 20
    /\ \A i \in 1..2 :
          /\ units[i].type = "knight"
          /\ units[i].alive
          /\ units[i].health = 1200

----------------------------------------------------------------------------
(* C11: every tick runs all its phases to completion: no tick ends with an  *)
(* exception thrown out of Game.update                                      *)
C11_TickCompletes == ~(Ticked /\ lastOp.result = "fault")

----------------------------------------------------------------------------
(* C12: stop() clears running; while running is clear and until start() is  *)
(* called, no step advances the world (towers, projectiles, regeneration,   *)
(* the units already there) and a unit that appears is the player's, never  *)
(* the opponent driver's; stop() on a stopped Game changes nothing          *)
C12_StopHalts ==
    /\ [][lastOp'.name = "stop" => ~running']_vars
    /\ [][(~running /\ lastOp'.name # "start") =>
            /\ ~running'
            /\ UNCHANGED <<towers, projectiles, lastElixirRegen, nextPid, outcome,
                           tickLog, canvas, playerZone, enemyZone>>
            /\ playerElixir' <= playerElixir
            /\ Len(units') >= Len(units)
            /\ SubSeq(units', 1, Len(units)) = units
            /\ \A i \in (Len(units) + 1)..Len(units') : units'[i].team = "player"]_vars
    /\ [][(~running /\ lastOp'.name = "stop") =>
            UNCHANGED <<canvas, playerZone, enemyZone, running, loops, aiTimers, now,
                        frames, units, towers, projectiles, playerElixir,
                        lastElixirRegen, selectedCard, draggingCard, nextId, nextPid,
                        outcome, tickLog>>]_vars

\* After stop() the opponent timer fired without spawning and the pending
\* frame callback returned without a tick: no unit has been spawned at all
C12_Witness ==
    /\ ~running
    /\ outcome = "none"
    /\ lastOp.name = "gameLoop"
    /\ lastOp.result = "stopped"
    /\ loops = 0
    /\ aiTimers[1] = LateTime + 4000
    /\ nextId = MaxUnits

----------------------------------------------------------------------------
(* C13: a tick runs regen, unit advance, projectile advance, tower advance, *)
(* collision resolution, cleanup and win check in that order, each over all *)
(* entities before the next: the attacks of the tick happen in the order    *)
(* units, towers, clashes, projectile hits; a projectile fired by a unit in *)
(* the tick has been advanced in it and one fired by a tower has not; no    *)
(* dead unit or projectile is left and the result is that of the towers as  *)
(* the tick leaves them; regen is applied even when collision resolution    *)
(* throws; and no unit is spawned and no selection changes during a tick    *)
PhaseRank(e) ==
    IF e.ev = "hit" THEN 6
    ELSE IF e.via = "checkCollisions" THEN 5
    ELSE IF e.by.kind = "tower" THEN 4
    ELSE 2

C13_PhaseOrder ==
    [][TickStep =>
         /\ \A m, n \in 1..Len(tickLog') :
               m < n => PhaseRank(tickLog'[m]) <= PhaseRank(tickLog'[n])
         /\ \A k \in 1..Len(projectiles') :
               LET q == projectiles'[k]
               IN  q.id >= nextPid =>
                     IF q.type = "tower"
                     THEN \E j \in 1..Len(towers') :
                             towers'[j].team = q.team /\ towers'[j].pos = q.pos
                     ELSE LET firers == {i \in 1..Len(units') :
                                            /\ units'[i].team = q.team
                                            /\ units'[i].type = q.type}
                              step(from) == Displacement(from, q.target, q.speed, lastOp'.dt)
                          IN  firers # {} =>
                                \E i \in firers :
                                    /\ (lastOp'.dt > 0 /\ q.target # units'[i].pos)
                                          => q.pos # units'[i].pos
                                    /\ q.pos = Vec(units'[i].pos.x + step(units'[i].pos).x,
                                                   units'[i].pos.y + step(units'[i].pos).y)
         /\ lastOp'.result # "fault" =>
               /\ \A i \in 1..Len(units') : units'[i].alive
               /\ \A k \in 1..Len(projectiles') : projectiles'[k].alive
               /\ lastOp'.result = "none" <=>
                      (TowerAlive(towers', "player") /\ TowerAlive(towers', "enemy"))
         /\ lastElixirRegen + lastOp'.dt < 1000 =>
               lastElixirRegen' = lastElixirRegen + lastOp'.dt
         /\ nextId' = nextId
         /\ selectedCard' = selectedCard
         /\ draggingCard' = draggingCard
         /\ \A i \in 1..Len(units') : IndexOfUnit(units, units'[i].id) > 0]_vars

\* A tick of 600 ms in which a player archer and then the enemy tower fired:
\* the archer's projectile has flown 120 past its start, the tower's is
\* still at the tower
C13_Witness ==
    /\ Ticked
    /\ lastOp.result = "none"
    /\ lastOp.dt = 600
    /\ Len(projectiles) = 2
    /\ projectiles[1].type = "archer"
    /\ projectiles[1].pos = Vec(200, 30)
    /\ projectiles[2].type = "tower"
    /\ projectiles[2].pos = Vec(200, 50)
    /\ Len(tickLog) = 2

----------------------------------------------------------------------------
(* C14: in every state the tower list holds exactly two towers, the player  *)
(* tower and the enemy tower, at the positions initializeTowers gave them;  *)
(* no operation adds, removes or moves a tower, dead or alive               *)
C14_TwoTowers ==
    /\ Len(towers) = 2
    /\ towers[1].team = "player"
    /\ towers[1].pos = Vec(canvas.width \div 2, canvas.height - 50)
    /\ towers[2].team = "enemy"
    /\ towers[2].pos = Vec(canvas.width \div 2, 50)

\* A tower destroyed in a tick is still in the list after the cleanup of
\* that tick and after the operations that followed the end of the match
C14_Witness ==
    /\ lastOp.name = "gameLoop"
    /\ lastOp.result = "stopped"
    /\ outcome = "victory"
    /\ Len(towers) = 2
    /\ ~towers[2].alive
    /\ towers[1].alive
    /\ frames = 2
    /\ \E n \in 1..Len(tickLog) :
          tickLog[n].ev = "damage" /\ tickLog[n].on = TowerRef(2)

----------------------------------------------------------------------------
(* C15: the target a live unit acquires is a live opposing unit at minimum  *)
(* distance, whatever the distance; with no live opposing unit it is the    *)
(* live opposing tower; with that tower dead it is none.  It is acquired    *)
(* anew in every tick, and it is never of the unit's own team               *)
Foes(u) == {j \in 1..Len(units) : units[j].team # u.team /\ units[j].alive}

\* ref is what u is to acquire in the world of the current state
AcquiredByUnit(u, ref) ==
    IF Foes(u) # {}
    THEN /\ ref.kind = "unit"
         /\ \E j \in Foes(u) :
               /\ units[j].id = ref.id
               /\ \A m \in Foes(u) :
                     Dist2(u.pos, units[j].pos) <= Dist2(u.pos, units[m].pos)
    ELSE IF \E k \in 1..Len(towers) : towers[k].team # u.team /\ towers[k].alive
    THEN /\ ref.kind = "tower"
         /\ towers[ref.id].team # u.team
         /\ towers[ref.id].alive
    ELSE ref = NoRef

C15_UnitTarget ==
    /\ [](\A i \in 1..Len(units) :
             units[i].alive =>
                 AcquiredByUnit(units[i], UnitFindTarget(World, units[i])))
    /\ [][TickStep =>
            /\ (/\ units # <<>>
                /\ units[1].alive
                /\ IndexOfUnit(units', units[1].id) > 0) =>
                   AcquiredByUnit(units[1],
                                  units'[IndexOfUnit(units', units[1].id)].target)
            /\ \A i \in 1..Len(units') :
                  LET r == units'[i].target
                  IN  /\ (r.kind = "unit" /\ IndexOfUnit(units', r.id) > 0) =>
                            units'[IndexOfUnit(units', r.id)].team # units'[i].team
                      /\ r.kind = "tower" => towers'[r.id].team # units'[i].team]_vars

\* The enemy knight, first to act in the tick, took the giant 25 away for
\* its target, not the archer 100 away that precedes the giant in the list
C15_Witness ==
    /\ Ticked
    /\ Len(units) = 3
    /\ units[1].team = "enemy"
    /\ units[2].type = "archer"
    /\ units[3].type = "giant"
    /\ units[1].target = UnitRef(units[3])

----------------------------------------------------------------------------
(* C16: the target a live tower acquires is a live opposing unit at minimum *)
(* distance among those within attackRange (150) of the tower, or none when *)
(* no live opposing unit is within that range; it is never a tower; a dead  *)
(* tower keeps the target it had, and does not fire                         *)
InReach(tw, us) ==
    {i \in 1..Len(us) : /\ us[i].team # tw.team
                         /\ us[i].alive
                         /\ Dist2(tw.pos, us[i].pos) <= 150 * 150}

\* ref is what the tower tw is to acquire among the units us
AcquiredByTower(tw, us, ref) ==
    /\ ref.kind \in {"none", "unit"}
    /\ ref = NoRef => InReach(tw, us) = {}
    /\ (ref.kind = "unit" /\ IndexOfUnit(us, ref.id) > 0) =>
          LET t == us[IndexOfUnit(us, ref.id)]
          IN  /\ t.team # tw.team
              /\ Dist2(tw.pos, t.pos) <= 150 * 150
              /\ \A m \in InReach(tw, us) :
                    Dist2(tw.pos, t.pos) <= Dist2(tw.pos, us[m].pos)

C16_TowerTarget ==
    /\ [](\A k \in 1..Len(towers) :
             towers[k].alive =>
                 LET r == TowerFindTarget(World, towers[k])
                 IN  /\ AcquiredByTower(towers[k], units, r)
                     /\ InReach(towers[k], units) # {} => r.kind = "unit")
    /\ [][TickStep =>
            \A k \in 1..Len(towers) :
                IF towers'[k].alive
                THEN AcquiredByTower(towers'[k], units', towers'[k].target)
                ELSE /\ towers'[k].target = towers[k].target
                     /\ towers'[k].lastAttack = towers[k].lastAttack
                     /\ \A n \in 1..Len(tickLog') :
                           tickLog'[n].by # TowerRef(k)]_vars

\* After a tick the enemy tower has the giant 25 away for its target, not
\* the archer 100 away, and the player tower has none: the only enemy unit
\* is 400 away
C16_Witness ==
    /\ Ticked
    /\ Len(units) = 3
    /\ units[1].team = "enemy"
    /\ units[1].alive
    /\ units[3].type = "giant"
    /\ towers[2].target = UnitRef(units[3])
    /\ towers[1].target = NoRef

----------------------------------------------------------------------------
(* C17: in the unit advance of a tick a unit with no target, or within      *)
(* attackRange of its target, keeps its position; otherwise it moves        *)
(* speed * deltaTime towards the target and the result is clamped to        *)
(* x in [radius, width - radius], y in [radius, height - radius]; a unit    *)
(* that moved is inside the playfield                                       *)
Bound(v, lo, hi) == IF v < lo THEN lo ELSE IF v > hi THEN hi ELSE v

C17_UnitMove ==
    [][TickStep =>
         /\ \A i \in 1..Len(units), j \in 1..Len(units') :
               (units'[j].id = units[i].id /\ units'[j].pos # units[i].pos) =>
                   /\ units'[j].pos.x >= units'[j].radius
                   /\ units'[j].pos.x <= canvas.width - units'[j].radius
                   /\ units'[j].pos.y >= units'[j].radius
                   /\ units'[j].pos.y <= canvas.height - units'[j].radius
         /\ (/\ units # <<>>
             /\ units[1].alive
             /\ IndexOfUnit(units', units[1].id) > 0) =>
               LET u == units[1]
                   v == units'[IndexOfUnit(units', u.id)]
                   r == v.target
                   tp == IF r.kind = "tower" THEN towers[r.id].pos
                         ELSE IF r.kind = "unit"
                         THEN units[IndexOfUnit(units, r.id)].pos
                         ELSE u.pos
                   d == Displacement(u.pos, tp, u.speed, lastOp'.dt)
               IN  IF r = NoRef \/ Dist2(u.pos, tp) <= u.attackRange * u.attackRange
                   THEN v.pos = u.pos
                   ELSE v.pos = Vec(Bound(u.pos.x + d.x, u.radius,
                                          canvas.width - u.radius),
                                    Bound(u.pos.y + d.y, u.radius,
                                          canvas.height - u.radius))]_vars

\* A giant (radius 25) released at (5, 150) has made its step of 10 towards
\* the enemy tower in a tick of 500 ms and has been clamped to x = 25
C17_Witness ==
    /\ Ticked
    /\ lastOp.dt = 500
    /\ \E i \in 1..Len(units) :
          /\ units[i].type = "giant"
          /\ units[i].target.kind = "tower"
          /\ units[i].pos = Vec(25, 145)

----------------------------------------------------------------------------
(* C18: a cooldown-gated attack of a knight or giant takes its damage from  *)
(* the target's health at once; one of an archer, a wizard or a tower adds  *)
(* exactly one projectile with the attacker's damage and team and takes     *)
(* nothing from the target: health goes down only by direct blows and by    *)
(* projectile hits in collision resolution                                  *)
RECURSIVE SumOn(_, _, _)
SumOn(log, ref, kinds) ==
    IF log = <<>> THEN 0
    ELSE (IF Head(log).on = ref /\ Head(log).ev \in kinds
          THEN Head(log).amount ELSE 0) + SumOn(Tail(log), ref, kinds)

\* The projectile events among the first n events of a log
Shots(log, n) == {m \in 1..n : log[m].ev = "projectile"}

\* The type and team of the attacker by, in the state before the tick
AttackerType(by) ==
    IF by.kind = "tower" THEN "tower" ELSE units[IndexOfUnit(units, by.id)].type
AttackerTeam(by) ==
    IF by.kind = "tower" THEN towers[by.id].team
    ELSE units[IndexOfUnit(units, by.id)].team

C18_AttackEffect ==
    [][TickStep =>
         /\ \A n \in 1..Len(tickLog') :
               LET e == tickLog'[n]
               IN  e.via = "attemptAttack" =>
                     /\ e.ev \in {"damage", "projectile"}
                     /\ e.ev = "damage" <=> AttackerType(e.by) \in {"knight", "giant"}
                     /\ e.ev = "projectile" <=>
                            AttackerType(e.by) \in {"archer", "wizard", "tower"}
         /\ nextPid' = nextPid + Cardinality(Shots(tickLog', Len(tickLog')))
         /\ \A k \in 1..Len(projectiles') :
               LET q == projectiles'[k]
               IN  q.id >= nextPid =>
                     \E n \in 1..Len(tickLog') :
                         /\ tickLog'[n].ev = "projectile"
                         /\ Cardinality(Shots(tickLog', n)) = q.id - nextPid + 1
                         /\ q.damage = tickLog'[n].amount
                         /\ q.team = AttackerTeam(tickLog'[n].by)
                         /\ q.type = AttackerType(tickLog'[n].by)
         /\ \A k \in 1..Len(towers) :
               towers'[k].health =
                   Max(0, towers[k].health - SumOn(tickLog', TowerRef(k), {"damage"}))
         /\ \A i \in 1..Len(units), j \in 1..Len(units') :
               units'[j].id = units[i].id =>
                   units'[j].health =
                       Max(0, units[i].health
                              - SumOn(tickLog', UnitRef(units[i]), {"damage", "hit"}))]_vars

\* A tick in which a knight struck a giant (its health is down at once), and
\* an archer and a tower each fired one projectile that has hit nothing yet
C18_Witness ==
    /\ Ticked
    /\ lastOp.result = "none"
    /\ nextPid = 3
    /\ \A n \in 1..Len(tickLog) : tickLog[n].ev # "hit"
    /\ \E n \in 1..Len(tickLog) :
          /\ tickLog[n].ev = "projectile"
          /\ tickLog[n].by.kind = "unit"
          /\ tickLog[n].on.kind = "unit"
          /\ \E i \in 1..Len(units) :
                /\ UnitRef(units[i]) = tickLog[n].on
                /\ units[i].health = units[i].maxHealth - SumOn(tickLog, tickLog[n].on, {"damage"})
    /\ \E n \in 1..Len(tickLog) : tickLog[n].ev = "projectile" /\ tickLog[n].by.kind = "tower"
    /\ \E n \in 1..Len(tickLog) :
          /\ tickLog[n].ev = "damage"
          /\ tickLog[n].via = "attemptAttack"
          /\ \E i \in 1..Len(units) :
                /\ UnitRef(units[i]) = tickLog[n].on
                /\ units[i].type = "giant"
                /\ units[i].health < 3000

----------------------------------------------------------------------------
(* C19: the target point of a projectile is the position its target had     *)
(* when it was fired, and as long as the projectile exists its target       *)
(* point, damage and team do not change, whatever its target or the         *)
(* combatant that fired it does afterwards                                  *)
C19_FixedTargetPoint ==
    /\ [][\A k \in 1..Len(projectiles), j \in 1..Len(projectiles') :
             projectiles'[j].id = projectiles[k].id =>
                 /\ projectiles'[j].target = projectiles[k].target
                 /\ projectiles'[j].damage = projectiles[k].damage
                 /\ projectiles'[j].team = projectiles[k].team]_vars
    /\ [][TickStep =>
            \A j \in 1..Len(projectiles') :
                LET q == projectiles'[j]
                IN  q.id >= nextPid =>
                      \E n \in 1..Len(tickLog') :
                          LET e == tickLog'[n]
                          IN  /\ e.ev = "projectile"
                              /\ Cardinality(Shots(tickLog', n)) = q.id - nextPid + 1
                              /\ e.on.kind = "tower" => q.target = towers[e.on.id].pos
                              /\ (e.on.kind = "unit" /\ IndexOfUnit(units', e.on.id) > 0) =>
                                    \/ q.target = units'[IndexOfUnit(units', e.on.id)].pos
                                    \/ q.target = units[IndexOfUnit(units, e.on.id)].pos]_vars

\* The enemy tower fired at a giant standing at (200, 140); a tick later the
\* giant has walked on to (200, 130) and the projectile still flies to
\* (200, 140)
C19_Witness ==
    /\ Ticked
    /\ frames = 2
    /\ \E j \in 1..Len(projectiles), i \in 1..Len(units) :
          /\ projectiles[j].id = 1
          /\ projectiles[j].type = "tower"
          /\ projectiles[j].target = Vec(200, 140)
          /\ projectiles[j].pos # Vec(200, 50)
          /\ units[i].type = "giant"
          /\ units[i].pos = Vec(200, 130)

----------------------------------------------------------------------------
(* C20: a projectile that its advance step leaves outside the playfield,    *)
(* [0, width] x [0, height] of the canvas the match is played on, is marked *)
(* dead: no live projectile is outside the playfield                        *)
C20_DeadOutsidePlayfield ==
    \A k \in 1..Len(projectiles) :
        projectiles[k].alive =>
            /\ projectiles[k].pos.x >= 0
            /\ projectiles[k].pos.x <= canvas.width
            /\ projectiles[k].pos.y >= 0
            /\ projectiles[k].pos.y <= canvas.height

----------------------------------------------------------------------------
(* C21: in the unit-vs-unit pass of a tick every attack is a direct blow of *)
(* the attacker's damage on a unit of the other team, whatever the type of  *)
(* the attacker, and every member of an opposing pair that is closer to the *)
(* other than its attackRange strikes it                                    *)
ClashEvents(log) == {n \in 1..Len(log) : log[n].via = "checkCollisions" /\ log[n].ev # "hit"}

C21_ClashDirect ==
    [][TickStep =>
         /\ \A n \in ClashEvents(tickLog') :
               LET e == tickLog'[n]
               IN  /\ e.ev = "damage"
                   /\ e.by.kind = "unit"
                   /\ e.on.kind = "unit"
                   /\ AttackerTeam(e.by) # AttackerTeam(e.on)
                   /\ e.amount = units[IndexOfUnit(units, e.by.id)].damage
         /\ \A i, j \in 1..Len(units') :
               (/\ units'[i].alive
                /\ units'[j].alive
                /\ units'[i].team # units'[j].team
                /\ Dist2(units'[i].pos, units'[j].pos)
                      < units'[i].attackRange * units'[i].attackRange) =>
                   \E n \in ClashEvents(tickLog') :
                       /\ tickLog'[n].ev = "damage"
                       /\ tickLog'[n].by = UnitRef(units'[i])
                       /\ tickLog'[n].on = UnitRef(units'[j])]_vars

----------------------------------------------------------------------------
(* C22: in the projectile-vs-unit pass of a tick only a projectile that is  *)
(* alive deals damage, and only to a unit of the other team: a projectile   *)
(* its advance step of the same tick marked dead hits nothing               *)
\* The team of the projectile id: one in flight before the tick, or the
\* one fired by the matching shot of the tick
ProjectileTeam(id, log) ==
    IF id < nextPid
    THEN projectiles[CHOOSE k \in 1..Len(projectiles) : projectiles[k].id = id].team
    ELSE AttackerTeam(log[CHOOSE n \in 1..Len(log) :
                              /\ log[n].ev = "projectile"
                              /\ Cardinality(Shots(log, n)) = id - nextPid + 1].by)

C22_LiveProjectileHits ==
    [][TickStep =>
         \A n \in 1..Len(tickLog') :
             LET e == tickLog'[n]
             IN  e.ev = "hit" =>
                   /\ e.byAlive
                   /\ e.on.kind = "unit"
                   /\ AttackerTeam(e.on) # ProjectileTeam(e.by.id, tickLog')]_vars

----------------------------------------------------------------------------
(* C23: after every tick that reaches cleanup the unit list and the         *)
(* projectile list hold only live entities, every unit and projectile that  *)
(* was alive when cleanup ran is still in its list, unchanged and in the    *)
(* same order, nothing else is in the lists, and a unit that has left the   *)
(* unit list never comes back                                               *)
\* The world of a tick of dt ms at time t as cleanup finds it
BeforeCleanup(dt, t) ==
    checkCollisions(
        updateTowers(updateProjectiles(updateUnits(World, dt, t, canvas), dt), t), t)

----------------------------------------------------------------------------
(* C24: takeDamage on a dead unit or tower changes nothing (health stays 0, *)
(* alive stays false); no cooldown-gated attack of a tick is made on a      *)
(* combatant that the earlier attacks of that tick had already killed; and  *)
(* lastAttack is written only by a combatant that made such an attack       *)
DamageAmounts == {100, 150, 200, 250}

\* The health of the combatant ref before the tick
HealthOf(ref) ==
    IF ref.kind = "tower" THEN towers[ref.id].health
    ELSE units[IndexOfUnit(units, ref.id)].health

\* The combatant by made a cooldown-gated attack in the log
Attempted(log, by) ==
    \E n \in 1..Len(log) : log[n].via = "attemptAttack" /\ log[n].by = by

C24_DeadNoOp ==
    /\ [](/\ \A i \in 1..Len(units), a \in DamageAmounts :
                ~units[i].alive => takeDamage(units[i], a) = units[i]
          /\ \A k \in 1..Len(towers), a \in DamageAmounts :
                ~towers[k].alive => takeDamage(towers[k], a) = towers[k])
    /\ [][TickStep =>
            /\ \A n \in 1..Len(tickLog') :
                  tickLog'[n].via = "attemptAttack" =>
                      SumOn(SubSeq(tickLog', 1, n - 1), tickLog'[n].on, {"damage", "hit"})
                          < HealthOf(tickLog'[n].on)
            /\ \A i \in 1..Len(units), j \in 1..Len(units') :
                  units'[j].id = units[i].id =>
                      units'[j].lastAttack =
                          IF Attempted(tickLog', UnitRef(units[i])) THEN now'
                          ELSE units[i].lastAttack
            /\ \A k \in 1..Len(towers) :
                  towers'[k].lastAttack =
                      IF Attempted(tickLog', TowerRef(k)) THEN now'
                      ELSE towers[k].lastAttack]_vars

\* The player knight, 65 from the enemy tower, was struck down by the enemy
\* knight in the unit advance: the only attack of the tick is that blow, the
\* tower, which acts later in the tick, has no target and has not fired
C24_Witness ==
    /\ Ticked
    /\ frames = 1
    /\ Len(units) = 1
    /\ units[1].team = "enemy"
    /\ units[1].lastAttack = now
    /\ Len(tickLog) = 1
    /\ tickLog[1].ev = "damage"
    /\ tickLog[1].via = "attemptAttack"
    /\ tickLog[1].amount = 150
    /\ towers[2].target = NoRef
    /\ towers[2].lastAttack = 0
    /\ projectiles = <<>>

----------------------------------------------------------------------------
(* C25: a firing of the opponent timer that spawns appends one unit of team *)
(* enemy, of type knight, archer, giant or wizard, at a point of the upper  *)
(* half of the canvas (x in [0, width], y in [0, height/2]); and every      *)
(* point the two Utils.random calls of enemyAI can return is in that half   *)
\* Candidate coordinates around the ends of the ranges of the two calls
ProbeXs == {0, 99, 100, 101, 200, 299, 300, 301, 400}
ProbeYs == {0, 24, 25, 26, 49, 50, 51, 250, 251}

InEnemyHalf(p) ==
    /\ p.x >= 0
    /\ p.x <= canvas.width
    /\ p.y >= 0
    /\ 2 * p.y <= canvas.height

\* A step in which enemyAI ran
SpawnStep == lastOp'.name = "enemyAI" /\ lastOp'.result # "notRunning" /\ aiTimers' # aiTimers

C25_EnemySpawn ==
    /\ [](\A x \in ProbeXs, y \in ProbeYs :
             (/\ RandomRange(100, canvas.width - 100, x)
              /\ RandomRange(50, enemyZone.height - 50, y)) => InEnemyHalf(Vec(x, y)))
    /\ [][SpawnStep =>
            /\ Len(units') = Len(units) + 1
            /\ units'[Len(units')].team = "enemy"
            /\ units'[Len(units')].type \in {"knight", "archer", "giant", "wizard"}
            /\ units'[Len(units')].type = lastOp'.result
            /\ InEnemyHalf(units'[Len(units')].pos)]_vars

\* The opponent timer has just spawned a wizard at (200, 50)
C25_Witness ==
    /\ lastOp.name = "enemyAI"
    /\ lastOp.result = "wizard"
    /\ units # <<>>
    /\ units[Len(units)].team = "enemy"
    /\ units[Len(units)].type = "wizard"
    /\ units[Len(units)].pos = Vec(200, 50)
    /\ units[Len(units)].health = 600

----------------------------------------------------------------------------
(* C26: a firing of the opponent timer while the match is running appends   *)
(* exactly one new enemy unit and changes nothing else of the world         *)
(* (playerElixir, the regen accumulator, the selection, the towers, the     *)
(* projectiles, the units already there); a firing while the match is not   *)
(* running changes nothing                                                  *)
\* A step in which an interval callback ran
TimerStep == lastOp'.name = "enemyAI" /\ aiTimers' # aiTimers

C26_TimerEffect ==
    [][TimerStep =>
         /\ UNCHANGED <<canvas, playerZone, enemyZone, running, loops, now, towers,
                        projectiles, playerElixir, lastElixirRegen, selectedCard,
                        draggingCard, nextPid, outcome>>
         /\ IF running
            THEN /\ Len(units') = Len(units) + 1
                 /\ SubSeq(units', 1, Len(units)) = units
                 /\ units'[Len(units')].team = "enemy"
                 /\ units'[Len(units')].alive
                 /\ units'[Len(units')].health = units'[Len(units')].maxHealth
                 /\ \A i \in 1..Len(units) : units[i].id # units'[Len(units')].id
            ELSE units' = units /\ nextId' = nextId]_vars

\* The timer fired after stop(): nothing was spawned
C26_Witness ==
    /\ lastOp.name = "enemyAI"
    /\ lastOp.result = "notRunning"
    /\ ~running
    /\ outcome = "none"
    /\ nextId = MaxUnits
    /\ aiTimers[1] = LateTime + 4000

----------------------------------------------------------------------------
(* C27: the unit advance of a tick gives every unit the same position,      *)
(* health, alive flag, target and lastAttack, and creates the same          *)
(* projectiles, when the unit list is taken in the opposite order           *)
Reversed(us) == [i \in 1..Len(us) |-> us[Len(us) + 1 - i]]

\* The projectiles of a world, without their identities
ShotsOf(w) == {[w.projectiles[k] EXCEPT !.id = 0] : k \in 1..Len(w.projectiles)}

C27_OrderIndependent ==
    \A dt \in LateDeltaTimes :
        LET a == updateUnits(World, dt, now + dt, canvas)
            b == updateUnits([World EXCEPT !.units = Reversed(units)], dt, now + dt, canvas)
        IN  /\ \A i \in 1..Len(a.units) :
                  \E j \in 1..Len(b.units) : b.units[j] = a.units[i]
            /\ ShotsOf(a) = ShotsOf(b)

----------------------------------------------------------------------------
(* C28: every blow dealt and every projectile created by a unit in a tick,  *)
(* in the unit advance or in the unit-vs-unit pass, is the act of a unit    *)
(* that is alive at that moment                                             *)
C28_DeadUnitsDoNotAttack ==
    \A n \in 1..Len(tickLog) :
        (tickLog[n].by.kind = "unit" /\ tickLog[n].ev \in {"damage", "projectile"})
            => tickLog[n].byAlive

----------------------------------------------------------------------------
(* C29: across any sequence of start() and stop() calls at most one frame   *)
(* callback is pending and at most one opponent interval is registered      *)
C29_SingleLoop == loops <= 1 /\ Len(aiTimers) <= 1

----------------------------------------------------------------------------
(* C30: the health of a tower changes only in a tick, and only by the       *)
(* cooldown-gated direct blows of knights and giants whose target is that   *)
(* tower; no projectile hits a tower, and the tower opposing a side that    *)
(* fields only archers and wizards keeps its health                         *)
\* The events of a log that take health from the tower k
TowerBlows(log, k) ==
    {n \in 1..Len(log) : log[n].on = TowerRef(k) /\ log[n].ev \in {"damage", "hit"}}

C30_TowerDamage ==
    [][\A k \in 1..Len(towers) :
          IF ~TickStep THEN towers'[k].health = towers[k].health
          ELSE /\ towers'[k].health =
                      Max(0, towers[k].health - SumOn(tickLog', TowerRef(k), {"damage"}))
               /\ \A n \in TowerBlows(tickLog', k) :
                     LET e == tickLog'[n]
                     IN  /\ e.ev = "damage"
                         /\ e.via = "attemptAttack"
                         /\ e.by.kind = "unit"
                         /\ AttackerType(e.by) \in {"knight", "giant"}
                         /\ AttackerTeam(e.by) # towers[k].team
                         /\ e.elapsed >= 1000
                         /\ IndexOfUnit(units', e.by.id) > 0 =>
                               units'[IndexOfUnit(units', e.by.id)].target = TowerRef(k)
               /\ (\A i \in 1..Len(units) :
                      units[i].team # towers[k].team =>
                          units[i].type \in {"archer", "wizard"})
                     => towers'[k].health = towers[k].health]_vars

\* A player archer fired at the enemy tower 100 away; its projectile has
\* reached the tower in the same tick and is gone, and the tower has its
\* full health
C30_Witness ==
    /\ Ticked
    /\ lastOp.dt = 500
    /\ towers[2].health = 2500
    /\ \E n \in 1..Len(tickLog) :
          /\ tickLog[n].ev = "projectile"
          /\ tickLog[n].by.kind = "unit"
          /\ tickLog[n].on = TowerRef(2)
          /\ tickLog[n].amount = 100
    /\ \A k \in 1..Len(projectiles) : projectiles[k].type = "tower"
    /\ \E i \in 1..Len(units) : units[i].type = "archer" /\ units[i].team = "player"

----------------------------------------------------------------------------
\* The identities of the projectiles fired in a play: at most one by the
\* archer and one by the enemy tower in each of its frames
FlightIds == 1..8

(* C31: as long as frames keep coming, every projectile in flight is        *)
(* eventually marked dead and removed from the projectile list              *)
C31_ProjectilesDie ==
    \A id \in FlightIds :
        (\E k \in 1..Len(projectiles) : projectiles[k].id = id)
            ~> (\A k \in 1..Len(projectiles) : projectiles[k].id # id)

====
